---- MODULE Spec2Model ----
(***************************************************************************)
(* Company Data Comparison Chat (src/app.py): the ingestion pipeline of    *)
(* the Streamlit script.  One run of the script lists the company folders, *)
(* lets the user select companies, lists each company's files, turns each  *)
(* file into a text (get_file_info), concatenates the tagged blocks into   *)
(* combined_context and sends it with the question to the chat-completion  *)
(* API (ask_gpt).                                                          *)
(*                                                                         *)
(* Python strings are sequences of one-character strings, so that slicing, *)
(* len(), `in` and concatenation are computed character by character.      *)
(* Python dicts are insertion-ordered: a sequence of [key, value] records. *)
(* Drive entries are records whose DOMAIN holds the fields present.        *)
(***************************************************************************)
EXTENDS Integers, Sequences, FiniteSets

(***************************************************************************)
(* Bounds of the model.                                                    *)
(***************************************************************************)
\* Most file entries the storage returns during one run of the script.
MaxFiles == 3
\* Most sub-folders the parent folder lists.
MaxFolders == 2
\* max_context_length of ask_gpt.  The source sets 16000 (app.py:238); the
\* model runs the same code with a budget that short file texts exceed.
max_context_length == 100

(***************************************************************************)
(* String literals of the source.                                          *)
(***************************************************************************)
\* the truncation notice ask_gpt appends (line 241)
NOTICE ==
    <<"\n", "\n", "[", "N", "o", "t", "e", ":", " ", "C", "o", "n", "t", "e", "x", "t", " ", "w", "a", "s", " ", "t", "r", "u", "n", "c", "a", "t", "e", "d", " ", "d", "u", "e", " ", "t", "o", " ", "s", "i", "z", "e", " ", "l", "i", "m", "i", "t", "s", "]">>
\* the answer ask_gpt returns from its exception handler (line 268)
FALLBACK ==
    <<"S", "o", "r", "r", "y", ",", " ", "I", " ", "e", "n", "c", "o", "u", "n", "t", "e", "r", "e", "d", " ", "a", "n", " ", "e", "r", "r", "o", "r", " ", "w", "h", "i", "l", "e", " ", "p", "r", "o", "c", "e", "s", "s", "i", "n", "g", " ", "y", "o", "u", "r", " ", "q", "u", "e", "s", "t", "i", "o", "n", ".">>
\* extract_pdf_content without PyPDF2 (line 70)
NO_PYPDF2 ==
    <<"[", "P", "D", "F", " ", "e", "x", "t", "r", "a", "c", "t", "i", "o", "n", " ", "r", "e", "q", "u", "i", "r", "e", "s", " ", "P", "y", "P", "D", "F", "2", " ", "l", "i", "b", "r", "a", "r", "y", ".", " ", "A", "d", "d", " ", "'", "P", "y", "P", "D", "F", "2", "'", " ", "t", "o", " ", "y", "o", "u", "r", " ", "r", "e", "q", "u", "i", "r", "e", "m", "e", "n", "t", "s", ".", "t", "x", "t", ".", "]">>
\* extract_pdf_content's error text, before str(e) (line 90)
PDF_ERROR_PREFIX ==
    <<"[", "E", "r", "r", "o", "r", " ", "e", "x", "t", "r", "a", "c", "t", "i", "n", "g", " ", "P", "D", "F", " ", "c", "o", "n", "t", "e", "n", "t", ":", " ">>
\* appended after every page's text (line 86)
PAGE_SEP ==
    <<"\n", "\n">>
\* the substring that marks a Google Workspace type (line 204)
WORKSPACE_PREFIX ==
    <<"a", "p", "p", "l", "i", "c", "a", "t", "i", "o", "n", "/", "v", "n", "d", ".", "g", "o", "o", "g", "l", "e", "-", "a", "p", "p", "s", ".">>
\* line 206
MIME_DOCUMENT ==
    <<"a", "p", "p", "l", "i", "c", "a", "t", "i", "o", "n", "/", "v", "n", "d", ".", "g", "o", "o", "g", "l", "e", "-", "a", "p", "p", "s", ".", "d", "o", "c", "u", "m", "e", "n", "t">>
\* line 208
MIME_SPREADSHEET ==
    <<"a", "p", "p", "l", "i", "c", "a", "t", "i", "o", "n", "/", "v", "n", "d", ".", "g", "o", "o", "g", "l", "e", "-", "a", "p", "p", "s", ".", "s", "p", "r", "e", "a", "d", "s", "h", "e", "e", "t">>
\* line 210
MIME_PRESENTATION ==
    <<"a", "p", "p", "l", "i", "c", "a", "t", "i", "o", "n", "/", "v", "n", "d", ".", "g", "o", "o", "g", "l", "e", "-", "a", "p", "p", "s", ".", "p", "r", "e", "s", "e", "n", "t", "a", "t", "i", "o", "n">>
\* line 214
MIME_PDF ==
    <<"a", "p", "p", "l", "i", "c", "a", "t", "i", "o", "n", "/", "p", "d", "f">>
\* line 207
GOOGLE_DOC ==
    <<"[", "G", "o", "o", "g", "l", "e", " ", "D", "o", "c", ":", " ">>
\* line 209
GOOGLE_SHEET ==
    <<"[", "G", "o", "o", "g", "l", "e", " ", "S", "h", "e", "e", "t", ":", " ">>
\* line 211
GOOGLE_SLIDES ==
    <<"[", "G", "o", "o", "g", "l", "e", " ", "S", "l", "i", "d", "e", "s", ":", " ">>
\* line 213
GOOGLE_OTHER ==
    <<"[", "G", "o", "o", "g", "l", "e", " ", "W", "o", "r", "k", "s", "p", "a", "c", "e", " ", "f", "i", "l", "e", ":", " ">>
\* line 221
FILE_PREFIX ==
    <<"[", "F", "i", "l", "e", ":", " ">>
\* line 221
FILE_TYPE ==
    <<",", " ", "T", "y", "p", "e", ":", " ">>
\* line 221
FILE_EXT ==
    <<",", " ", "E", "x", "t", "e", "n", "s", "i", "o", "n", ":", " ">>
\* the closing bracket of every placeholder
CLOSE ==
    <<"]">>
\* get_file_info's error text, before str(e) (line 227)
ERROR_PREFIX ==
    <<"[", "E", "r", "r", "o", "r", ":", " ">>
\* file.get('mimeType', 'unknown') (line 201)
UNKNOWN_MIME ==
    <<"u", "n", "k", "n", "o", "w", "n">>
\* file.get('size', 'unknown size') (line 219)
UNKNOWN_SIZE ==
    <<"u", "n", "k", "n", "o", "w", "n", " ", "s", "i", "z", "e">>
\* file.get('name', 'Unknown file') (line 227)
UNKNOWN_FILE ==
    <<"U", "n", "k", "n", "o", "w", "n", " ", "f", "i", "l", "e">>
\* str(KeyError('id')), raised by file['id'] (line 199)
KEYERROR_ID ==
    <<"'", "i", "d", "'">>
\* str(KeyError('name')), raised by file['name'] (line 200)
KEYERROR_NAME ==
    <<"'", "n", "a", "m", "e", "'">>
\* the block header of combined_context (line 407)
TAG_OPEN ==
    <<"\n", "\n", "[">>
\* line 407
TAG_DASH ==
    <<" ", "-", " ">>
\* line 407
TAG_CLOSE ==
    <<"]", ":", "\n">>
\* the manual-data block header (line 413)
MANUAL_TAG ==
    <<" ", "-", " ", "M", "a", "n", "u", "a", "l", " ", "D", "a", "t", "a", "]", ":", "\n">>
\* add_manual_data (line 283)
FY22 ==
    <<" ", "F", "Y", "2", "2", ":", " ">>
\* add_manual_data (line 283)
FY23 ==
    <<" ", "F", "Y", "2", "3", ":", " ">>
\* add_manual_data (line 283)
NEWLINE ==
    <<"\n">>

(***************************************************************************)
(* Values of the environment: MIME types and texts the storage, the PDFs   *)
(* and the user supply.                                                    *)
(***************************************************************************)
\* a nested folder, listed like any other child
MIME_FOLDER ==
    <<"a", "p", "p", "l", "i", "c", "a", "t", "i", "o", "n", "/", "v", "n", "d", ".", "g", "o", "o", "g", "l", "e", "-", "a", "p", "p", "s", ".", "f", "o", "l", "d", "e", "r">>
\* a plain-text file
MIME_TEXT ==
    <<"t", "e", "x", "t", "/", "p", "l", "a", "i", "n">>
\* a binary file
MIME_ZIP ==
    <<"a", "p", "p", "l", "i", "c", "a", "t", "i", "o", "n", "/", "z", "i", "p">>
\* a PDF page that quotes the truncation note
NOTE_TEXT ==
    <<"[", "N", "o", "t", "e", ":", " ", "C", "o", "n", "t", "e", "x", "t", " ", "w", "a", "s", " ", "t", "r", "u", "n", "c", "a", "t", "e", "d", " ", "d", "u", "e", " ", "t", "o", " ", "s", "i", "z", "e", " ", "l", "i", "m", "i", "t", "s", "]">>
\* str.lower(): the upper-case letters
UPPER ==
    <<"A", "B", "C", "D", "E", "F", "G", "H", "I", "J", "K", "L", "M", "N", "O", "P", "Q", "R", "S", "T", "U", "V", "W", "X", "Y", "Z">>
\* str.lower(): their lower-case letters
LOWER ==
    <<"a", "b", "c", "d", "e", "f", "g", "h", "i", "j", "k", "l", "m", "n", "o", "p", "q", "r", "s", "t", "u", "v", "w", "x", "y", "z">>

(***************************************************************************)
(* Python string and dict operations.                                      *)
(***************************************************************************)
\* s[i:i+len(sub)] == sub, i counted from 1.
StartsAt(sub, s, i) ==
    \A j \in 1..Len(sub) : s[i + j - 1] = sub[j]

\* `sub in s`.
Contains(sub, s) ==
    \E i \in 1..(Len(s) - Len(sub) + 1) : StartsAt(sub, s, i)

\* The number of places of s where sub occurs.
Count(sub, s) ==
    Cardinality({i \in 1..(Len(s) - Len(sub) + 1) : StartsAt(sub, s, i)})

\* s.endswith(sub).
EndsWith(sub, s) ==
    /\ Len(sub) <= Len(s)
    /\ StartsAt(sub, s, Len(s) - Len(sub) + 1)

\* s[:n].
Slice(s, n) ==
    SubSeq(s, 1, IF n < Len(s) THEN n ELSE Len(s))

\* s.rfind(c) + 1: the last place of c in s, 0 when there is none.
RFind(c, s) ==
    LET at == {i \in 1..Len(s) : s[i] = c}
    IN  IF at = {} THEN 0 ELSE CHOOSE i \in at : \A j \in at : j <= i

\* c.lower() of one character.
LowerChar(c) ==
    IF \E i \in 1..Len(UPPER) : UPPER[i] = c
    THEN LOWER[CHOOSE i \in 1..Len(UPPER) : UPPER[i] = c]
    ELSE c

\* s.lower().
Lower(s) ==
    [i \in 1..Len(s) |-> LowerChar(s[i])]

\* os.path.splitext(p)[1]: from the last dot on, when that dot follows the
\* last separator and a character other than a dot stands between them.
splitext(p) ==
    LET sepIndex == RFind("/", p)
        dotIndex == RFind(".", p)
    IN  IF /\ dotIndex > sepIndex
           /\ \E k \in (sepIndex + 1)..(dotIndex - 1) : p[k] # "."
        THEN SubSeq(p, dotIndex, Len(p))
        ELSE <<>>

\* d.get(field, default) of a record of the storage API.
Get(d, field, default) ==
    IF field \in DOMAIN d THEN d[field] ELSE default

\* `k in d` of an insertion-ordered dict.
HasKey(d, k) ==
    \E i \in 1..Len(d) : d[i].key = k

\* d[k].
DictGet(d, k) ==
    d[CHOOSE i \in 1..Len(d) : d[i].key = k].value

\* DictSet as dict.setdefault would do it: a key already there keeps its
\* first value.
DictSet_setdefault(d, k, v) ==
    IF \E i \in 1..Len(d) : d[i].key = k
    THEN d
    ELSE Append(d, [key |-> k, value |-> v])

\* d[k] = v: a new key goes last, a key already there keeps its place and
\* takes the new value.
DictSet(d, k, v) ==
    IF HasKey(d, k)
    THEN [i \in 1..Len(d) |-> IF d[i].key = k THEN [key |-> k, value |-> v] ELSE d[i]]
    ELSE Append(d, [key |-> k, value |-> v])

\* The sequences over S of at most n elements, none twice.
InjSeqs(S, n) ==
    {s \in UNION {[1..k -> S] : k \in 0..n} :
        \A i, j \in 1..Len(s) : i # j => s[i] # s[j]}

(***************************************************************************)
(* The storage's answers.                                                  *)
(***************************************************************************)
\* Sub-folders the parent lists: two companies.
FolderEntries ==
    { [id |-> <<"F", "1">>, name |-> <<"A">>],
      [id |-> <<"F", "2">>, name |-> <<"B">>] }

\* Children a company folder lists (fields: id, name, mimeType, size).
\* Native workspace files of each kind, a PDF, a text file, a binary, an
\* entry without MIME type, and entries without id or without name.
\* Several share a name: the storage does not keep names unique.
FileEntries ==
    { [id |-> <<"1">>, name |-> <<"P", "l", "a", "n">>, mimeType |-> MIME_DOCUMENT],
      [id |-> <<"2">>, name |-> <<"P", "l", "a", "n">>, mimeType |-> MIME_SPREADSHEET],
      [id |-> <<"3">>, name |-> <<"d", "e", "c", "k">>, mimeType |-> MIME_PRESENTATION],
      [id |-> <<"4">>, name |-> <<"o", "l", "d">>, mimeType |-> MIME_FOLDER],
      [id |-> <<"5">>, name |-> <<"r", ".", "p", "d", "f">>, mimeType |-> MIME_PDF,
       size |-> <<"9", "0">>],
      [id |-> <<"6">>, name |-> <<"n", ".", "t", "x", "t">>, mimeType |-> MIME_TEXT,
       size |-> <<"1", "4">>],
      [id |-> <<"7">>, name |-> <<"A", ".", "Z", "I", "P">>, mimeType |-> MIME_ZIP,
       size |-> <<"4", "2">>],
      [id |-> <<"8">>, name |-> <<".", "e", "n", "v">>],
      [name |-> <<"r", ".", "p", "d", "f">>, mimeType |-> MIME_TEXT],
      [id |-> <<"9">>, mimeType |-> MIME_DOCUMENT] }

\* The children the folders of a whole run of the script list: a part of
\* FileEntries, so that a run with two companies stays small.
DriveFiles ==
    {f \in FileEntries : "id" \in DOMAIN f /\ f.id \in {<<"1">>, <<"2">>, <<"5">>, <<"7">>}}

\* What downloading and parsing one PDF gives: the page texts, or an
\* exception with its message.
PdfOutcomes ==
    { [kind |-> "pages", pages |-> <<>>],
      [kind |-> "pages", pages |-> << <<"Q", "3">> >>],
      [kind |-> "pages", pages |-> << <<"Q", "3">>, NOTE_TEXT >>],
      [kind |-> "error", msg |-> <<"E", "O", "F">>] }

\* The outcome of a file that extract_pdf_content never downloads.
NoFetch ==
    [kind |-> "none"]

(***************************************************************************)
(* State.                                                                  *)
(***************************************************************************)
VARIABLES
    HAS_PYPDF2,          \* line 13-17: whether PyPDF2 imports
    pc,                  \* the script's position
    company_folders,     \* dict: folder name -> folder id (line 382)
    selected_companies,  \* the multiselect's value, in selection order (line 387)
    ci,                  \* index of `company` in selected_companies (line 391)
    files_list,          \* list_files_in_folder's return value (line 396)
    fi,                  \* index of `file` in files (line 197)
    result,              \* get_file_info's dict; files_info once returned
    combined_context,    \* line 390
    context,             \* ask_gpt's local, after truncation (line 241)
    requests,            \* completion requests sent: the context each carried
    answer,              \* ask_gpt's return value
    fetches,             \* get_media downloads started (line 73-78)
    folders_listed,      \* history: what listing the parent folder gave
    listed,              \* history: per company visited, what the listing gave
    log,                 \* history: the files processed, their keys and texts
    blocks,              \* history: the blocks appended to combined_context
    asklog               \* history: what failed inside ask_gpt

vars ==
    <<HAS_PYPDF2, pc, company_folders, selected_companies, ci, files_list, fi,
      result, combined_context, context, requests, answer, fetches,
      folders_listed, listed, log, blocks, asklog>>

(***************************************************************************)
(* extract_pdf_content and the body of get_file_info's loop.               *)
(***************************************************************************)
\* line 84-86: text += page.extract_text() + "\n\n" over the pages.
RECURSIVE PagesText(_)
PagesText(pages) ==
    IF pages = <<>>
    THEN <<>>
    ELSE PagesText(SubSeq(pages, 1, Len(pages) - 1)) \o pages[Len(pages)] \o PAGE_SEP

\* line 68-90.  has: HAS_PYPDF2; out: what download and parsing give.
extract_pdf_content(has, out) ==
    IF ~has
    THEN NO_PYPDF2
    ELSE IF out.kind = "error"
         THEN PDF_ERROR_PREFIX \o out.msg \o CLOSE
         ELSE PagesText(out.pages)

\* workspace_info with the f prefix of its string literals forgotten: the
\* text "{file_name}" stands where the name should.
workspace_info_literal(mime_type, file_name) ==
    GOOGLE_DOC \o <<"{", "f", "i", "l", "e", "_", "n", "a", "m", "e", "}">> \o CLOSE

\* line 204-213: the placeholder of a Google Workspace file.
workspace_info(mime_type, file_name) ==
    IF mime_type = MIME_DOCUMENT
    THEN GOOGLE_DOC \o file_name \o CLOSE
    ELSE IF mime_type = MIME_SPREADSHEET
         THEN GOOGLE_SHEET \o file_name \o CLOSE
         ELSE IF mime_type = MIME_PRESENTATION
              THEN GOOGLE_SLIDES \o file_name \o CLOSE
              ELSE GOOGLE_OTHER \o file_name \o CLOSE

\* line 218-221: the metadata line of any other file.  size is read and
\* not used.
regular_info(file, file_name, mime_type) ==
    LET size == Get(file, "size", UNKNOWN_SIZE)
        ext == Lower(splitext(file_name))
    IN  FILE_PREFIX \o file_name \o FILE_TYPE \o mime_type \o FILE_EXT \o ext \o CLOSE

\* branch with text files sent down the download path, as a variant that
\* reads text content would.
branch_text_downloaded(mime_type) ==
    IF \E i \in 1..(Len(mime_type) - Len(WORKSPACE_PREFIX) + 1) :
          \A j \in 1..Len(WORKSPACE_PREFIX) : mime_type[i + j - 1] = WORKSPACE_PREFIX[j]
    THEN "workspace"
    ELSE IF mime_type = MIME_PDF \/ mime_type = MIME_TEXT THEN "pdf" ELSE "regular"

\* line 204, 214, 217: which branch a MIME type takes.
branch(mime_type) ==
    IF Contains(WORKSPACE_PREFIX, mime_type)
    THEN "workspace"
    ELSE IF mime_type = MIME_PDF THEN "pdf" ELSE "regular"

\* line 225-227: the handler of the loop body.
on_file_error(file, msg) ==
    [key |-> Get(file, "name", UNKNOWN_FILE),
     value |-> ERROR_PREFIX \o msg \o CLOSE,
     fetch |-> 0]

\* line 198-227: one iteration.  The dict key and value it assigns, and
\* the number of downloads it starts.
process_file(has, file, out) ==
    IF "id" \notin DOMAIN file
    THEN on_file_error(file, KEYERROR_ID)
    ELSE IF "name" \notin DOMAIN file
         THEN on_file_error(file, KEYERROR_NAME)
         ELSE LET file_name == file.name
                  mime_type == Get(file, "mimeType", UNKNOWN_MIME)
                  b == branch(mime_type)
              IN  IF b = "workspace"
                  THEN [key |-> file_name,
                        value |-> workspace_info(mime_type, file_name),
                        fetch |-> 0]
                  ELSE IF b = "pdf"
                       THEN [key |-> file_name,
                             value |-> extract_pdf_content(has, out),
                             fetch |-> IF has THEN 1 ELSE 0]
                       ELSE [key |-> file_name,
                             value |-> regular_info(file, file_name, mime_type),
                             fetch |-> 0]

\* Whether an iteration for `file` reaches extract_pdf_content's download.
Downloads(has, file) ==
    /\ has
    /\ {"id", "name"} \subseteq DOMAIN file
    /\ branch(Get(file, "mimeType", UNKNOWN_MIME)) = "pdf"

(***************************************************************************)
(* The script's main flow (line 380-426; line 330-376 repeats it for       *)
(* uploaded credentials).                                                  *)
(***************************************************************************)
\* line 174: {folder['name']: folder['id'] for folder in folders}.
RECURSIVE FolderDict(_)
FolderDict(folders) ==
    IF folders = <<>>
    THEN <<>>
    ELSE LET last == folders[Len(folders)]
         IN  DictSet(FolderDict(SubSeq(folders, 1, Len(folders) - 1)), last.name, last.id)

\* A files().list(...).execute() call that raises.
ListingError ==
    [kind |-> "error"]

\* line 166-177.  listing: the storage's answer, or ListingError.
get_company_folders(listing) ==
    IF listing.kind = "error" THEN <<>> ELSE FolderDict(listing.files)

\* line 180-191.
list_files_in_folder(listing) ==
    IF listing.kind = "error" THEN <<>> ELSE listing.files

\* line 407: the text one file adds to combined_context.
Block(company, fname, content) ==
    TAG_OPEN \o company \o TAG_DASH \o fname \o TAG_CLOSE \o content

\* line 404-407: combined_context after the loop over files_info.items().
RECURSIVE AppendItems(_, _, _)
AppendItems(ctx, company, items) ==
    IF items = <<>>
    THEN ctx
    ELSE AppendItems(ctx \o Block(company, items[1].key, items[1].value),
                     company, Tail(items))

\* History of the same loop: where in combined_context each block lies.
RECURSIVE BlockRecords(_, _, _)
BlockRecords(ctx, c, items) ==
    IF items = <<>>
    THEN <<>>
    ELSE LET company == selected_companies[c]
             next == ctx \o Block(company, items[1].key, items[1].value)
         IN  << [c |-> c, key |-> items[1].key, value |-> items[1].value,
                 start |-> Len(ctx) + 1, stop |-> Len(next)] >>
             \o BlockRecords(next, c, Tail(items))

\* line 391, 408: the loop moves to the next company, or ends.
NextCompany ==
    /\ ci' = ci + 1
    /\ pc' = IF ci = Len(selected_companies) THEN "manual" ELSE "list"

\* SkipCompany leaving the loop (`break`) instead of going on.
SkipCompany_break ==
    /\ ci' = ci + 1
    /\ pc' = "manual"

\* line 398-399: a company without files is skipped with a warning.
SkipCompany ==
    NextCompany

Init ==
    /\ HAS_PYPDF2 \in BOOLEAN
    /\ pc = "folders"
    /\ company_folders = <<>>
    /\ selected_companies = <<>>
    /\ ci = 1
    /\ files_list = <<>>
    /\ fi = 1
    /\ result = <<>>
    /\ combined_context = <<>>
    /\ context = <<>>
    /\ requests = <<>>
    /\ answer = <<>>
    /\ fetches = 0
    /\ folders_listed = [kind |-> "none"]
    /\ listed = <<>>
    /\ log = <<>>
    /\ blocks = <<>>
    /\ asklog = [key |-> "none", v1 |-> "none", legacy |-> "none"]

\* line 382-385.
GetCompanyFolders ==
    /\ pc = "folders"
    /\ \E listing \in {ListingError} \cup
             {[kind |-> "ok", files |-> f] : f \in InjSeqs(FolderEntries, MaxFolders)} :
          /\ company_folders' = get_company_folders(listing)
          /\ folders_listed' = listing
          /\ pc' = IF get_company_folders(listing) = <<>> THEN "done" ELSE "select"
    /\ UNCHANGED <<HAS_PYPDF2, selected_companies, ci, files_list, fi, result,
                   combined_context, context, requests, answer, fetches, listed,
                   log, blocks, asklog>>

\* line 387-390, 426: the user's selection, in the order selected.
SelectCompanies ==
    /\ pc = "select"
    /\ \E sel \in InjSeqs({company_folders[i].key : i \in 1..Len(company_folders)},
                          Len(company_folders)) :
          /\ selected_companies' = sel
          /\ pc' = IF sel = <<>> THEN "done" ELSE "list"
    /\ combined_context' = <<>>
    /\ ci' = 1
    /\ UNCHANGED <<HAS_PYPDF2, folders_listed, company_folders, files_list, fi, result, context,
                   requests, answer, fetches, listed, log, blocks, asklog>>

\* line 391-399: the company's folder is listed; an empty list (or a
\* failed call) skips the company.
ListFiles ==
    /\ pc = "list"
    /\ LET company == selected_companies[ci]
           folder_id == DictGet(company_folders, company)
       IN  \E listing \in {ListingError} \cup
                 {[kind |-> "ok", files |-> f] :
                     f \in InjSeqs(DriveFiles, MaxFiles - Len(log))} :
              /\ files_list' = list_files_in_folder(listing)
              /\ listed' = Append(listed,
                                  [c |-> ci, company |-> company, folder_id |-> folder_id,
                                   listing |-> listing,
                                   files |-> list_files_in_folder(listing)])
              /\ IF list_files_in_folder(listing) = <<>>
                 THEN SkipCompany /\ UNCHANGED <<fi, result>>
                 ELSE /\ pc' = "extract"
                      /\ fi' = 1
                      /\ result' = <<>>
                      /\ ci' = ci
    /\ UNCHANGED <<HAS_PYPDF2, folders_listed, company_folders, selected_companies, combined_context,
                   context, requests, answer, fetches, log, blocks, asklog>>

\* line 197-227: one iteration of get_file_info's loop.
ProcessFile ==
    /\ pc = "extract"
    /\ LET file == files_list[fi]
       IN  \E out \in IF Downloads(HAS_PYPDF2, file) THEN PdfOutcomes ELSE {NoFetch} :
              LET r == process_file(HAS_PYPDF2, file, out)
              IN  /\ result' = DictSet(result, r.key, r.value)
                  /\ fetches' = fetches + r.fetch
                  /\ log' = Append(log, [c |-> ci, k |-> fi, file |-> file, out |-> out,
                                         key |-> r.key, value |-> r.value,
                                         fetch |-> r.fetch])
    /\ fi' = fi + 1
    /\ pc' = IF fi = Len(files_list) THEN "append" ELSE "extract"
    /\ UNCHANGED <<HAS_PYPDF2, folders_listed, company_folders, selected_companies, ci, files_list,
                   combined_context, context, requests, answer, listed, blocks,
                   asklog>>

\* line 402-407: get_file_info has returned; every item of files_info is
\* appended to combined_context.
AppendBlocks ==
    /\ pc = "append"
    /\ combined_context' = AppendItems(combined_context, selected_companies[ci], result)
    /\ blocks' = blocks \o BlockRecords(combined_context, ci, result)
    /\ NextCompany
    /\ UNCHANGED <<HAS_PYPDF2, folders_listed, company_folders, selected_companies, files_list, fi,
                   result, context, requests, answer, fetches, listed, log, asklog>>

\* line 271-286: what the form returns.  form: the widgets' values.
add_manual_data(form) ==
    IF form.submit /\ form.company # <<>> /\ form.metric # <<>>
    THEN [company |-> form.company,
          data |-> form.metric \o FY22 \o form.fy22 \o NEWLINE
                   \o form.metric \o FY23 \o form.fy23 \o NEWLINE]
    ELSE [company |-> <<>>, data |-> <<>>]

\* What the user may have typed into the manual-data form.
ManualForms ==
    { [submit |-> FALSE, company |-> <<>>, metric |-> <<>>, fy22 |-> <<>>, fy23 |-> <<>>],
      [submit |-> TRUE, company |-> <<>>, metric |-> <<"R">>, fy22 |-> <<"1">>,
       fy23 |-> <<"2">>],
      [submit |-> TRUE, company |-> <<"C">>, metric |-> <<"R">>, fy22 |-> <<"1">>,
       fy23 |-> <<"2">>] }

\* line 409-414.
ManualData ==
    /\ pc = "manual"
    /\ \E show_manual_input \in BOOLEAN, form \in ManualForms :
          LET m == add_manual_data(form)
          IN  combined_context' =
                  IF show_manual_input /\ m.company # <<>> /\ m.data # <<>>
                  THEN combined_context \o TAG_OPEN \o m.company \o MANUAL_TAG \o m.data
                  ELSE combined_context
    /\ pc' = "chat"
    /\ UNCHANGED <<HAS_PYPDF2, folders_listed, company_folders, selected_companies, ci, files_list, fi,
                   result, context, requests, answer, fetches, listed, log, blocks,
                   asklog>>

(***************************************************************************)
(* ask_gpt (line 232-268).                                                 *)
(***************************************************************************)
\* truncate with the slice forgotten: the notice is appended to the whole
\* context.
truncate_unsliced(ctx) ==
    IF Len(ctx) > max_context_length
    THEN ctx \o NOTICE
    ELSE ctx

\* line 238-241.
truncate(ctx) ==
    IF Len(ctx) > max_context_length
    THEN Slice(ctx, max_context_length) \o NOTICE
    ELSE ctx

\* on_ask_error of a handler that catches API errors only: anything else
\* leaves ask_gpt as an exception.
on_ask_error_narrow(exc) ==
    IF exc = "APIError"
    THEN [pc |-> "done", answer |-> FALLBACK]
    ELSE [pc |-> "raised", answer |-> <<>>]

\* line 266-268: `except Exception` takes every exception of the body and
\* returns the fixed answer.
on_ask_error(exc) ==
    [pc |-> "done", answer |-> FALLBACK]

\* line 255: `except AttributeError` around the v1 call.
falls_back(exc) ==
    exc = "AttributeError"

\* The model's replies.
Replies ==
    { <<"4", "2">> }

\* What the v1 call, openai.chat.completions.create (line 246-254), can do:
\*   reply         the request is sent and answered
\*   error         the request is sent and an exception other than
\*                 AttributeError is raised
\*   attr_missing  openai.chat does not exist (the pre-v1 library): an
\*                 AttributeError before any request is sent
\*   attr_error    the request is sent and an AttributeError is raised, in
\*                 the call or in reading response.choices[0].message.content
V1Outcomes ==
    {"reply", "error", "attr_missing", "attr_error"}

\* What the pre-v1 call, openai.ChatCompletion.create (line 257-265), can do:
\*   reply    the request is sent and answered
\*   error    the request is sent and an exception is raised
\*   removed  the library raises without sending (ChatCompletion is gone)
LegacyOutcomes ==
    {"reply", "error", "removed"}

\* line 419-423, 233-241: a question is typed and ask_gpt starts: it reads
\* the API key and truncates the context.
AskGptStart ==
    /\ pc = "chat"
    /\ \E user_query \in {<<>>, <<"?">>}, key_ok \in BOOLEAN :
          IF user_query = <<>>
          THEN /\ pc' = "done"
               /\ UNCHANGED <<context, answer, asklog>>
          ELSE IF ~key_ok
               THEN /\ pc' = on_ask_error("KeyError").pc
                    /\ answer' = on_ask_error("KeyError").answer
                    /\ asklog' = [asklog EXCEPT !.key = "error"]
                    /\ UNCHANGED context
               ELSE /\ pc' = "v1"
                    /\ context' = truncate(combined_context)
                    /\ asklog' = [asklog EXCEPT !.key = "ok"]
                    /\ UNCHANGED answer
    /\ UNCHANGED <<HAS_PYPDF2, folders_listed, company_folders, selected_companies, ci, files_list, fi,
                   result, combined_context, requests, fetches, listed, log, blocks>>

\* line 244-255: the v1 call.
AskGptV1 ==
    /\ pc = "v1"
    /\ \E o \in V1Outcomes, reply \in Replies :
          /\ asklog' = [asklog EXCEPT !.v1 = o]
          /\ requests' = IF o = "attr_missing" THEN requests ELSE Append(requests, context)
          /\ IF o = "reply"
             THEN pc' = "done" /\ answer' = reply
             ELSE LET exc == IF o = "error" THEN "APIError" ELSE "AttributeError"
                  IN  IF falls_back(exc)
                      THEN pc' = "legacy" /\ UNCHANGED answer
                      ELSE /\ pc' = on_ask_error(exc).pc
                           /\ answer' = on_ask_error(exc).answer
    /\ UNCHANGED <<HAS_PYPDF2, folders_listed, company_folders, selected_companies, ci, files_list, fi,
                   result, combined_context, context, fetches, listed, log, blocks>>

\* line 255-265: the pre-v1 call, made when the v1 call raised
\* AttributeError.
AskGptLegacy ==
    /\ pc = "legacy"
    /\ \E o \in LegacyOutcomes, reply \in Replies :
          /\ asklog' = [asklog EXCEPT !.legacy = o]
          /\ requests' = IF o = "removed" THEN requests ELSE Append(requests, context)
          /\ IF o = "reply"
             THEN pc' = "done" /\ answer' = reply
             ELSE /\ pc' = on_ask_error("APIError").pc
                  /\ answer' = on_ask_error("APIError").answer
    /\ UNCHANGED <<HAS_PYPDF2, folders_listed, company_folders, selected_companies, ci, files_list, fi,
                   result, combined_context, context, fetches, listed, log, blocks>>

Next ==
    \/ GetCompanyFolders
    \/ SelectCompanies
    \/ ListFiles
    \/ ProcessFile
    \/ AppendBlocks
    \/ ManualData
    \/ AskGptStart
    \/ AskGptV1
    \/ AskGptLegacy

Spec ==
    Init /\ [][Next]_vars

(***************************************************************************)
(* get_file_info on its own: any list of at most MaxFiles entries of one   *)
(* company, processed file by file.                                        *)
(***************************************************************************)
FilesInit ==
    /\ HAS_PYPDF2 \in BOOLEAN
    /\ pc = "extract"
    /\ company_folders = <<[key |-> <<"A">>, value |-> <<"F", "1">>]>>
    /\ selected_companies = << <<"A">> >>
    /\ ci = 1
    /\ files_list \in InjSeqs(FileEntries, MaxFiles) \ {<<>>}
    /\ fi = 1
    /\ result = <<>>
    /\ combined_context = <<>>
    /\ context = <<>>
    /\ requests = <<>>
    /\ answer = <<>>
    /\ fetches = 0
    /\ folders_listed = [kind |-> "none"]
    /\ listed = <<>>
    /\ log = <<>>
    /\ blocks = <<>>
    /\ asklog = [key |-> "none", v1 |-> "none", legacy |-> "none"]

FilesNext ==
    \/ ProcessFile
    \/ AppendBlocks

FilesSpec ==
    FilesInit /\ [][FilesNext]_vars

(***************************************************************************)
(* The claims.  A history entry of log is one iteration of get_file_info's *)
(* loop: the file, what its download gave, and the key, the text and the   *)
(* downloads of the iteration.                                             *)
(***************************************************************************)
\* A FileEntry as the storage lists it: id and name are present.
WellFormed(file) ==
    {"id", "name"} \subseteq DOMAIN file

MimeOf(file) ==
    Get(file, "mimeType", UNKNOWN_MIME)

\* A native workspace type: application/vnd.google-apps.*
IsNative(file) ==
    Contains(WORKSPACE_PREFIX, MimeOf(file))

\* The text a block of combined_context holds.
BlockText(b) ==
    TAG_OPEN \o selected_companies[b.c] \o TAG_DASH \o b.key \o TAG_CLOSE \o b.value

\* The blocks lie in combined_context where the history says, each with its
\* header and its text.
BlocksInContext ==
    \A p \in 1..Len(blocks) :
        /\ blocks[p].stop <= Len(combined_context)
        /\ SubSeq(combined_context, blocks[p].start, blocks[p].stop) = BlockText(blocks[p])

(* ---------------------------------------------------------------- C1 -- *)
\* C1, as stated: when the assembled context is longer than the budget, the
\* context sent to the LLM is at most budget + len(notice) long, and the
\* truncation notice occurs in it exactly once, at the end.
C1_NoticeExactlyOnce ==
    \A i \in 1..Len(requests) :
        Len(combined_context) > max_context_length =>
            /\ Len(requests[i]) <= max_context_length + Len(NOTICE)
            /\ EndsWith(NOTICE, requests[i])
            /\ Count(NOTICE, requests[i]) = 1

\* C1, amended: when the assembled context is longer than the budget, the
\* context sent to the LLM is its first budget characters followed by the
\* truncation notice (so budget + len(notice) long, ending with the notice);
\* the notice text occurs once more for every place it occurs in those first
\* budget characters, so exactly once only if the kept text does not hold it.
C1_TruncatedWithNotice ==
    \A i \in 1..Len(requests) :
        Len(combined_context) > max_context_length =>
            /\ Len(requests[i]) = max_context_length + Len(NOTICE)
            /\ EndsWith(NOTICE, requests[i])
            /\ Slice(requests[i], max_context_length)
                   = Slice(combined_context, max_context_length)
            /\ Count(NOTICE, requests[i])
                   = 1 + Count(NOTICE, Slice(combined_context, max_context_length))

\* A context over the budget was sent.
C1_Witness ==
    /\ requests # <<>>
    /\ Len(combined_context) > max_context_length
    /\ Count(NOTICE, requests[1]) = 1

(* ---------------------------------------------------------------- C2 -- *)
\* ask_gpt has been called and has returned.
AskReturned ==
    pc = "done" /\ asklog.key # "none"

\* Something inside ask_gpt raised.
AskRaisedInside ==
    \/ asklog.key = "error"
    \/ asklog.v1 \in {"error", "attr_missing", "attr_error"}
    \/ asklog.legacy \in {"error", "removed"}

\* The last thing ask_gpt tried raised.
AskFailed ==
    \/ asklog.key = "error"
    \/ asklog.v1 = "error"
    \/ asklog.v1 \in {"attr_missing", "attr_error"} /\ asklog.legacy \in {"error", "removed"}

\* C2, as stated: if anything inside ask_gpt fails, ask_gpt returns exactly
\* the fixed fallback string and no exception reaches the caller.
C2_AnyFailureGivesFallback ==
    /\ pc # "raised"
    /\ (AskReturned /\ AskRaisedInside) => answer = FALLBACK

\* C2, amended: no exception leaves ask_gpt.  It returns the fixed fallback
\* string when reading the key fails, when the v1 call fails with anything
\* but an AttributeError, or when the v1 call raises AttributeError and the
\* pre-v1 call fails too; when the v1 call raises AttributeError and the
\* pre-v1 call replies, it returns that reply.
C2_FallbackUnlessLegacyReplies ==
    /\ pc # "raised"
    /\ AskReturned => IF AskFailed THEN answer = FALLBACK ELSE answer \in Replies

\* The completion request was sent and failed; ask_gpt returned.
C2_Witness ==
    /\ AskReturned
    /\ asklog.v1 = "error"
    /\ Len(requests) = 1
    /\ answer = FALLBACK

(* ---------------------------------------------------------------- C3 -- *)
\* The bytes the storage holds for a text file, and their decoding.
FileBytes(file) ==
    <<81, 51>>

Chr(b) ==
    CASE b = 81 -> "Q"
      [] b = 51 -> "3"
      [] OTHER -> "?"

Decoded(bytes) ==
    [i \in 1..Len(bytes) |-> Chr(bytes[i])]

C4_NativeNeverFetched ==
    /\ \A i \in 1..Len(log) :
          (WellFormed(log[i].file) /\ IsNative(log[i].file)) =>
              /\ log[i].fetch = 0
              /\ log[i].value # <<>>
              /\ Contains(log[i].file.name, log[i].value)
    /\ (\A i \in 1..Len(log) : IsNative(log[i].file)) => fetches = 0

\* A document, and a native file of none of the three named kinds, have
\* been processed.
C4_Witness ==
    /\ \E i \in 1..Len(log) :
          WellFormed(log[i].file) /\ MimeOf(log[i].file) = MIME_DOCUMENT
    /\ \E i \in 1..Len(log) :
          WellFormed(log[i].file) /\ MimeOf(log[i].file) = MIME_FOLDER
    /\ fetches = 0

(* ---------------------------------------------------------------- C5 -- *)
\* Processing the file failed: a required field is missing, or the PDF's
\* download or parsing raised.
Fails(e) ==
    ~WellFormed(e.file) \/ e.out.kind = "error"

\* C5, as stated: when some files of a list fail, get_file_info returns a
\* result in which every file of the list, failing or not, has the text it
\* gets when processed alone.
C5_FailuresIsolated ==
    (pc = "append" /\ \E i \in 1..Len(log) : Fails(log[i])) =>
        \A i \in 1..Len(log) :
            /\ HasKey(result, log[i].key)
            /\ DictGet(result, log[i].key)
                   = process_file(HAS_PYPDF2, log[i].file, log[i].out).value

(* ---------------------------------------------------------------- C6 -- *)
\* The block of a processed file: tagged with its company and name and
\* holding its text.
BlocksOf(e) ==
    {p \in 1..Len(blocks) :
        blocks[p].c = e.c /\ blocks[p].key = e.key /\ blocks[p].value = e.value}

\* C6, as stated: after the loop over the selected companies, the block of
\* a file precedes the block of every file of a later company and of every
\* file listed after it in the same company.
C6_BlocksInListingOrder ==
    pc = "manual" =>
        \A i, j \in 1..Len(log) :
            (\/ log[i].c < log[j].c
             \/ log[i].c = log[j].c /\ log[i].k < log[j].k) =>
                \E p \in BlocksOf(log[i]), q \in BlocksOf(log[j]) :
                    blocks[p].start < blocks[q].start

(* ---------------------------------------------------------------- C7 -- *)
\* C7, as stated: a call of ask_gpt sends one completion request and,
\* whatever becomes of it, no second one.
C7_NoSecondRequest ==
    Len(requests) <= 1

(* ---------------------------------------------------------------- C8 -- *)
\* text/*, JSON, JavaScript, XML.
TextCompatible(mime) ==
    \/ Slice(mime, 5) = <<"t", "e", "x", "t", "/">>
    \/ mime \in { <<"a", "p", "p", "l", "i", "c", "a", "t", "i", "o", "n", "/", "j", "s", "o", "n">>,
                 <<"a", "p", "p", "l", "i", "c", "a", "t", "i", "o", "n", "/", "j", "a", "v", "a", "s", "c", "r", "i", "p", "t">>,
                 <<"a", "p", "p", "l", "i", "c", "a", "t", "i", "o", "n", "/", "x", "m", "l">> }

\* C8, as stated: for every file that is neither native, nor a PDF, nor
\* plain-text-compatible, nothing is downloaded and the placeholder names
\* the file, its extension and its size.
C8_PlaceholderNamesSize ==
    \A i \in 1..Len(log) :
        (/\ WellFormed(log[i].file)
         /\ ~IsNative(log[i].file)
         /\ MimeOf(log[i].file) # MIME_PDF
         /\ ~TextCompatible(MimeOf(log[i].file))) =>
            /\ log[i].fetch = 0
            /\ Contains(log[i].file.name, log[i].value)
            /\ Contains(Lower(splitext(log[i].file.name)), log[i].value)
            /\ Contains(Get(log[i].file, "size", UNKNOWN_SIZE), log[i].value)

(* ---------------------------------------------------------------- C9 -- *)
\* The history entries of company number c.
LogOf(c) ==
    {i \in 1..Len(log) : log[i].c = c}

\* C9: a failed or empty listing of the parent gives an empty mapping and
\* the script ends there without an error; a failed listing of a company
\* folder gives an empty list; and after the loop every selected company has
\* been listed, a company whose list is empty has no block, and every file
\* of every other company has been processed and has its block in
\* combined_context.
C9_ListingNeverFatal ==
    /\ (\/ folders_listed.kind = "error"
        \/ folders_listed.kind = "ok" /\ folders_listed.files = <<>>) =>
           company_folders = <<>> /\ pc = "done"
    /\ \A i \in 1..Len(listed) :
          listed[i].files = IF listed[i].listing.kind = "error"
                            THEN <<>>
                            ELSE listed[i].listing.files
    /\ pc = "manual" =>
          /\ Len(listed) = Len(selected_companies)
          /\ \A c \in 1..Len(listed) :
                /\ listed[c].c = c
                /\ listed[c].company = selected_companies[c]
                /\ IF listed[c].files = <<>>
                   THEN /\ LogOf(c) = {}
                        /\ \A p \in 1..Len(blocks) : blocks[p].c # c
                   ELSE \A k \in 1..Len(listed[c].files) :
                           \E i \in LogOf(c) :
                              /\ log[i].k = k
                              /\ log[i].file = listed[c].files[k]
                              /\ \E p \in 1..Len(blocks) :
                                    blocks[p].c = c /\ blocks[p].key = log[i].key
          /\ BlocksInContext

\* The first company's listing failed and the second company's files are in
\* the context.
C9_Witness ==
    /\ pc = "manual"
    /\ Len(listed) = 2
    /\ listed[1].listing.kind = "error"
    /\ listed[2].files # <<>>
    /\ \E p \in 1..Len(blocks) : blocks[p].c = 2

(* --------------------------------------------------------------- C10 -- *)
\* The keys get_file_info has used (the file name; 'Unknown file' for an
\* entry without name).
KeysOf(lg) ==
    {lg[i].key : i \in 1..Len(lg)}

\* The first and the last iteration that used key k.
FirstOf(lg, k) ==
    CHOOSE i \in 1..Len(lg) : lg[i].key = k /\ \A j \in 1..(i - 1) : lg[j].key # k

LastOf(lg, k) ==
    CHOOSE i \in 1..Len(lg) : lg[i].key = k /\ \A j \in (i + 1)..Len(lg) : lg[j].key # k

\* C10: get_file_info's result holds one entry per distinct file name, with
\* the text of the last file of that name, at the place of the first file
\* of that name; the context then holds exactly these blocks, so the texts
\* of the earlier files of a name are not in it as blocks.
C10_OneBlockPerName ==
    /\ pc = "append" =>
          /\ Len(result) = Cardinality(KeysOf(log))
          /\ \A k \in KeysOf(log) : HasKey(result, k)
          /\ \A p \in 1..Len(result) :
                result[p].value = log[LastOf(log, result[p].key)].value
          /\ \A p, q \in 1..Len(result) :
                p < q => FirstOf(log, result[p].key) < FirstOf(log, result[q].key)
    /\ pc = "manual" =>
          /\ Len(blocks) = Cardinality(KeysOf(log))
          /\ \A p \in 1..Len(blocks) :
                /\ blocks[p].value = log[LastOf(log, blocks[p].key)].value
                /\ blocks[p].start = IF p = 1 THEN 1 ELSE blocks[p - 1].stop + 1
          /\ blocks # <<>> => blocks[Len(blocks)].stop = Len(combined_context)
          /\ BlocksInContext

\* Three files, the first and the third with one name and different texts:
\* two blocks.
C10_Witness ==
    /\ pc = "manual"
    /\ Len(log) = 3
    /\ log[1].key = log[3].key
    /\ log[1].value # log[3].value
    /\ log[2].key # log[1].key
    /\ Len(blocks) = 2
    /\ blocks[1].value = log[3].value

====
